---- MODULE Spec2Model ----
(***************************************************************************)
(* Model of the page routes of the backend (routes/pages.js, kept as       *)
(* src/unnamed/part_003): the page collection and the two-phase reorder    *)
(* handler POST /reorder, one step per awaited storage call.               *)
(***************************************************************************)
EXTENDS Integers, Sequences, FiniteSets, TLC

\* ------------------------------------------------------------------ bounds
\* Longest pageOrder array a request carries.
MaxOrderLen == 2

\* ------------------------------------------------------------ identifiers
\* Strings standing for 24-character hexadecimal ObjectId strings.
Book1 == "b1"
Book2 == "b2"
PageA == "pA"
PageB == "pB"
PageD == "pD"
\* Well formed, but the _id of no stored page.
PageX == "pX"
\* A string that is not 24 hexadecimal characters.
BadId == "not-an-object-id"

HexIds == {Book1, Book2, PageA, PageB, PageD, PageX}

\* /^[0-9a-fA-F]{24}$/ together with the length test.
IsHex24(s) == s \in HexIds

\* --------------------------------------------------------- request values
\* A JavaScript value in an identifier position: absent (undefined), a
\* string, or an object carrying an _id. v is String(x); id is x._id, ""
\* when x has none.
Absent == [t |-> "absent", v |-> "undefined", id |-> ""]
Str(s) == [t |-> "str", v |-> s, id |-> ""]
Obj(s) == [t |-> "obj", v |-> "[object Object]", id |-> s]

Truthy(x) == x.t # "absent"

\* x && x._id ? String(x._id) : String(x)
IdStr(x) == IF Truthy(x) /\ x.id # "" THEN x.id ELSE x.v

\* A pageOrder value: absent, a truthy value that is no array, or an array.
NoOrder == [t |-> "absent", v |-> << >>]
NotArray == [t |-> "notarray", v |-> << >>]
Arr(s) == [t |-> "array", v |-> s]

IsArray(x) == x.t = "array"

Item(id, n) == [pageId |-> id, newPageNumber |-> n]

\* ------------------------------------------------------------------ state
VARIABLES
    pages,    \* the Page collection: a set of documents
    req,      \* the reorder request in flight, with its position in the handler
    get,      \* the list query (GET /book/:bookId) in flight
    create,   \* the create request (POST /) in flight
    put,      \* the update request (PUT /:id) in flight
    users,    \* the User collection: a document per user id
    referral, \* the referral requests in flight, one per client
    ledger,   \* per code owner, the redeem requests answered with success
    activity  \* the call of generateActivityFromDevotional in flight

\* The state of the referral routes and of the AI service.
outside == <<users, referral, ledger, activity>>

vars == <<pages, req, get, create, put, outside>>

\* A page document: its _id, the two indexed fields, and its content fields
\* (text, media, layout), which the model keeps as one value.
Doc(id, b, n) == [id |-> id, bookId |-> b, pageNumber |-> n, content |-> "text"]

\* ----------------------------------------------------------------- inputs
\* Page numbers a request asks for: the two positions in use at the start, a
\* free one, and a negative number, which the handler does not reject.
Targets == {-2, 1, 2, 3}

\* The entries of a pageOrder array. An entry for a page of the book carries
\* any target; an entry the handler cannot apply (a page of another book, an
\* id of no page, a malformed id) carries one target, which is never stored.
Items ==
    {Item(Str(id), n) : id \in {PageA, PageB}, n \in Targets}
    \cup {Item(Str(PageD), 2), Item(Str(PageX), 1), Item(Str(BadId), 1)}

RECURSIVE SeqsUpTo(_, _)
SeqsUpTo(S, n) ==
    IF n = 0 THEN {<< >>}
    ELSE LET shorter == SeqsUpTo(S, n - 1)
         IN  shorter \cup {Append(s, x) : s \in {t \in shorter : Len(t) = n - 1}, x \in S}

RawBookIds == {Absent, Str(BadId), Str(Book1), Obj(Book1), Obj(BadId)}

\* req.body of a reorder request: every array with a well-formed bookId, the
\* short arrays with each other bookId, and every bookId without an array.
Bodies ==
    {[bookId |-> Str(Book1), pageOrder |-> Arr(s)] : s \in SeqsUpTo(Items, MaxOrderLen)}
    \cup {[bookId |-> b, pageOrder |-> Arr(s)] :
            b \in RawBookIds \ {Str(Book1)}, s \in SeqsUpTo(Items, 1)}
    \cup {[bookId |-> b, pageOrder |-> o] : b \in RawBookIds, o \in {NoOrder, NotArray}}

\* Variant: the query has no filter.
FindAll(store, b) == store

\* ------------------------------------------------------------- collection
\* Page.find({ bookId })
Find(store, b) == {p \in store : p.bookId = b}

\* Variant: the filter without bookId.
MatchAnyBook(store, id, b) == {p \in store : p.id = id}

\* The documents the filter { _id: pageId, bookId: bookIdStr } selects.
Match(store, id, b) == {p \in store : p.id = id /\ p.bookId = b}

\* Variant: a collection without the unique index.
DuplicateKeyNoIndex(store, p, n) == FALSE

\* The unique index on (bookId, pageNumber): writing n into p is refused when
\* another document of p's book holds n.
DuplicateKey(store, p, n) ==
    \E q \in store : q.id # p.id /\ q.bookId = p.bookId /\ q.pageNumber = n

\* Variant: the update is an upsert, which inserts when nothing matches.
FindOneAndUpdateUpsert(store, id, b, n) ==
    IF Match(store, id, b) = {}
    THEN [outcome |-> "null", store |-> store \cup {Doc(id, b, n)}]
    ELSE LET p == CHOOSE d \in Match(store, id, b) : TRUE
         IN  IF DuplicateKey(store, p, n)
             THEN [outcome |-> "E11000", store |-> store]
             ELSE [outcome |-> "doc",
                   store |-> (store \ {p}) \cup {[p EXCEPT !.pageNumber = n]}]

\* Page.findOneAndUpdate({ _id: id, bookId: b }, { $set: { pageNumber: n } })
\* resolves to null when nothing matches, to the document when it is updated,
\* and throws the duplicate key error E11000 when the index refuses the write.
FindOneAndUpdate(store, id, b, n) ==
    IF Match(store, id, b) = {}
    THEN [outcome |-> "null", store |-> store]
    ELSE LET p == CHOOSE d \in Match(store, id, b) : TRUE
         IN  IF DuplicateKey(store, p, n)
             THEN [outcome |-> "E11000", store |-> store]
             ELSE [outcome |-> "doc",
                   store |-> (store \ {p}) \cup {[p EXCEPT !.pageNumber = n]}]

\* Variant: the sort runs the other way, .sort({ pageNumber: -1 }).
RECURSIVE SortDescending(_)
SortDescending(S) ==
    IF S = {} THEN << >>
    ELSE LET m == CHOOSE p \in S : \A q \in S : p.pageNumber >= q.pageNumber
         IN  <<m>> \o SortDescending(S \ {m})

\* .sort({ pageNumber: 1 }): the documents of S as a list, smallest first.
RECURSIVE SortByPageNumber(_)
SortByPageNumber(S) ==
    IF S = {} THEN << >>
    ELSE LET m == CHOOSE p \in S : \A q \in S : p.pageNumber <= q.pageNumber
         IN  <<m>> \o SortByPageNumber(S \ {m})

\* .sort applied to Page.find({ bookId }): what a list query for the book
\* reads from the collection.
ListQuery(store, b) == SortByPageNumber(Find(store, b))

\* -------------------------------------------------------------- responses
\* body is the page list of res.json(updatedPages); counts is what the
\* response says about the number of entries applied and supplied: the
\* handler sends the page list and nothing else.
NoRes == [status |-> 0, body |-> << >>, message |-> "", counts |-> << >>]
Json(list) == [status |-> 200, body |-> list, message |-> "", counts |-> << >>]
Status(code, msg) == [status |-> code, body |-> << >>, message |-> msg, counts |-> << >>]

\* ---------------------------------------------------------------- handler
Clients == {1}

Idle ==
    [pc |-> "idle", body |-> [bookId |-> Absent, pageOrder |-> NoOrder],
     bookIdStr |-> "", validPageOrders |-> << >>, i |-> 0, updatedCount |-> 0,
     res |-> NoRes, log |-> << >>, writes |-> << >>, before |-> {}]

\* Variant: the format of bookId is not checked.
RequestCheckNoFormat(bookId, pageOrder) ==
    IF ~Truthy(bookId) \/ ~Truthy(pageOrder) \/ ~IsArray(pageOrder)
    THEN "bookId and pageOrder array are required"
    ELSE "ok"

\* The two checks made before any page is touched.
RequestCheck(bookId, pageOrder) ==
    IF ~Truthy(bookId) \/ ~Truthy(pageOrder) \/ ~IsArray(pageOrder)
    THEN "bookId and pageOrder array are required"
    ELSE IF ~IsHex24(IdStr(bookId))
    THEN "Invalid bookId format"
    ELSE "ok"

\* Variant: the loop ends at the first malformed pageId (break for continue).
RECURSIVE ValidPageOrdersBreak(_)
ValidPageOrdersBreak(pageOrder) ==
    IF pageOrder = << >> THEN << >>
    ELSE LET item == Head(pageOrder)
             pageIdStr == IdStr(item.pageId)
         IN  IF ~IsHex24(pageIdStr)
             THEN << >>
             ELSE <<[pageId |-> pageIdStr, newPageNumber |-> item.newPageNumber]>>
                  \o ValidPageOrdersBreak(Tail(pageOrder))

\* The loop over pageOrder that keeps the entries with a well-formed pageId.
RECURSIVE ValidPageOrders(_)
ValidPageOrders(pageOrder) ==
    IF pageOrder = << >> THEN << >>
    ELSE LET item == Head(pageOrder)
             pageIdStr == IdStr(item.pageId)
         IN  IF ~IsHex24(pageIdStr)
             THEN ValidPageOrders(Tail(pageOrder))
             ELSE <<[pageId |-> pageIdStr, newPageNumber |-> item.newPageNumber]>>
                  \o ValidPageOrders(Tail(pageOrder))

\* Variant: positive temporary numbers.
PlaceholderPositive(i) == i + 1

\* The placeholder Phase 1 gives the entry at 0-based index i.
Placeholder(i) == -(i + 1)

\* Variant: the Phase 1 loop stops one entry early.
Phase1ContinuesShort(i, valid) == i + 2 < Len(valid)

\* The Phase 1 loop test after the write at index i: i + 1 < length.
Phase1Continues(i, valid) == i + 1 < Len(valid)

\* The Phase 2 loop has entries left after the one at index i.
Phase2Continues(i, valid) == i + 1 < Len(valid)

\* Variant: every entry is counted, matched or not.
CountedAlways(updatedCount, outcome) == updatedCount + 1

\* if (result) updatedCount++
Counted(updatedCount, outcome) ==
    IF outcome = "doc" THEN updatedCount + 1 ELSE updatedCount

\* Where the handler waits after validation: the first Phase 1 write, or the
\* re-read when both loops are empty (the count of 0 is then logged at once).
AfterValidation(valid) == IF Len(valid) = 0 THEN "reread" ELSE "phase1"

\* The handler's state at its first await: the checks of bookId and
\* pageOrder have run and validPageOrders is built.
Accept(body, store) ==
    LET bookId == body.bookId
        pageOrder == body.pageOrder
        check == RequestCheck(bookId, pageOrder)
        base == [Idle EXCEPT !.body = body, !.before = store]
    IN  IF check # "ok"
        THEN [base EXCEPT !.pc = "done", !.res = Status(400, check)]
        ELSE LET valid == ValidPageOrders(pageOrder.v)
             IN  [base EXCEPT !.pc = AfterValidation(valid),
                    !.bookIdStr = IdStr(bookId), !.validPageOrders = valid,
                    !.log = IF Len(valid) = 0
                            THEN <<<<"Reordering", Len(pageOrder.v)>>, <<"Updated", 0>>>>
                            ELSE <<<<"Reordering", Len(pageOrder.v)>>>>]

\* The request arrives and the handler runs up to its first await.
Receive(r, body) ==
    /\ req[r].pc = "idle"
    /\ req' = [req EXCEPT ![r] = Accept(body, pages)]
    /\ UNCHANGED <<pages, get, create, put, outside>>

Write(phase, id, n, outcome) ==
    [phase |-> phase, pageId |-> id, pageNumber |-> n, outcome |-> outcome]

\* catch (error): the duplicate key error becomes the 500 response.
Caught == Status(500, "E11000 duplicate key error")

\* One awaited write of the Phase 1 loop.
Phase1(r) ==
    /\ req[r].pc = "phase1"
    /\ LET q == req[r]
           pageId == q.validPageOrders[q.i + 1].pageId
           w == FindOneAndUpdate(pages, pageId, q.bookIdStr, Placeholder(q.i))
           logged == Append(q.writes, Write(1, pageId, Placeholder(q.i), w.outcome))
       IN  /\ pages' = w.store
           /\ req' = [req EXCEPT ![r] =
                 IF w.outcome = "E11000"
                 THEN [q EXCEPT !.pc = "done", !.writes = logged, !.res = Caught]
                 ELSE IF Phase1Continues(q.i, q.validPageOrders)
                 THEN [q EXCEPT !.i = q.i + 1, !.writes = logged]
                 ELSE [q EXCEPT !.pc = "phase2", !.i = 0, !.updatedCount = 0,
                         !.writes = logged]]
    /\ UNCHANGED <<get, create, put, outside>>

\* One awaited write of the Phase 2 loop.
Phase2(r) ==
    /\ req[r].pc = "phase2"
    /\ LET q == req[r]
           pageId == q.validPageOrders[q.i + 1].pageId
           newPageNumber == q.validPageOrders[q.i + 1].newPageNumber
           w == FindOneAndUpdate(pages, pageId, q.bookIdStr, newPageNumber)
           logged == Append(q.writes, Write(2, pageId, newPageNumber, w.outcome))
           counted == Counted(q.updatedCount, w.outcome)
       IN  /\ pages' = w.store
           /\ req' = [req EXCEPT ![r] =
                 IF w.outcome = "E11000"
                 THEN [q EXCEPT !.pc = "done", !.writes = logged, !.res = Caught]
                 ELSE IF Phase2Continues(q.i, q.validPageOrders)
                 THEN [q EXCEPT !.i = q.i + 1, !.updatedCount = counted,
                         !.writes = logged]
                 ELSE [q EXCEPT !.pc = "reread", !.updatedCount = counted,
                         !.writes = logged,
                         !.log = Append(q.log, <<"Updated", counted>>)]]
    /\ UNCHANGED <<get, create, put, outside>>

\* The re-read of the book's pages and the success response.
ReRead(r) ==
    /\ req[r].pc = "reread"
    /\ LET q == req[r]
           updatedPages == SortByPageNumber(Find(pages, q.bookIdStr))
       IN  req' = [req EXCEPT ![r] = [q EXCEPT !.pc = "done", !.res = Json(updatedPages)]]
    /\ UNCHANGED <<pages, get, create, put, outside>>

\* The response has been sent; the handler has returned.
Return(r) ==
    /\ req[r].pc = "done"
    /\ req' = [req EXCEPT ![r] = Idle]
    /\ UNCHANGED <<pages, get, create, put, outside>>

\* One loop of the handler run without interruption from index i on: the
\* collection it leaves and whether a write threw.
RECURSIVE RunLoop(_, _, _, _, _)
RunLoop(store, b, valid, i, phase) ==
    IF i >= Len(valid) THEN [store |-> store, threw |-> FALSE]
    ELSE LET n == IF phase = 1 THEN Placeholder(i) ELSE valid[i + 1].newPageNumber
             w == FindOneAndUpdate(store, valid[i + 1].pageId, b, n)
         IN  IF w.outcome = "E11000" THEN [store |-> store, threw |-> TRUE]
             ELSE RunLoop(w.store, b, valid, i + 1, phase)

\* The whole handler as a function of the collection and the body, when no
\* other writer touches the collection: the collection left and the response.
Handle(store, body) ==
    LET check == RequestCheck(body.bookId, body.pageOrder)
        b == IdStr(body.bookId)
        valid == ValidPageOrders(body.pageOrder.v)
        one == RunLoop(store, b, valid, 0, 1)
        two == RunLoop(one.store, b, valid, 0, 2)
    IN  IF check # "ok" THEN [store |-> store, res |-> Status(400, check)]
        ELSE IF one.threw THEN [store |-> one.store, res |-> Caught]
        ELSE IF two.threw THEN [store |-> two.store, res |-> Caught]
        ELSE [store |-> two.store, res |-> Json(SortByPageNumber(Find(two.store, b)))]

\* ----------------------------------------------------------- storage failure
\* Variant: the catch block restores the collection the request found.
AfterCatchRestored(store, before) == before

\* The collection after the catch block, which only sends the response: the
\* writes made before the failure stay.
AfterCatch(store, before) == store

\* catch (error) for an awaited storage call that rejected (the store cannot
\* be reached): the 500 response.
Unavailable == Status(500, "storage unavailable")

\* The awaited Phase 1 write rejects without writing.
Phase1Fails(r) ==
    /\ req[r].pc = "phase1"
    /\ LET q == req[r]
           pageId == q.validPageOrders[q.i + 1].pageId
           logged == Append(q.writes, Write(1, pageId, Placeholder(q.i), "failed"))
       IN  /\ req' = [req EXCEPT ![r] =
                 [q EXCEPT !.pc = "done", !.writes = logged, !.res = Unavailable]]
           /\ pages' = AfterCatch(pages, q.before)
    /\ UNCHANGED <<get, create, put, outside>>

\* The awaited Phase 2 write rejects without writing.
Phase2Fails(r) ==
    /\ req[r].pc = "phase2"
    /\ LET q == req[r]
           pageId == q.validPageOrders[q.i + 1].pageId
           newPageNumber == q.validPageOrders[q.i + 1].newPageNumber
           logged == Append(q.writes, Write(2, pageId, newPageNumber, "failed"))
       IN  /\ req' = [req EXCEPT ![r] =
                 [q EXCEPT !.pc = "done", !.writes = logged, !.res = Unavailable]]
           /\ pages' = AfterCatch(pages, q.before)
    /\ UNCHANGED <<get, create, put, outside>>

\* The awaited re-read rejects.
ReReadFails(r) ==
    /\ req[r].pc = "reread"
    /\ LET q == req[r]
       IN  /\ req' = [req EXCEPT ![r] = [q EXCEPT !.pc = "done", !.res = Unavailable]]
           /\ pages' = AfterCatch(pages, q.before)
    /\ UNCHANGED <<get, create, put, outside>>

\* ------------------------------------------------- failures in validation
\* A null entry of pageOrder: the loop's read of item.pageId throws a
\* TypeError on it.
NullEntry == [pageId |-> [t |-> "nullentry", v |-> "", id |-> ""], newPageNumber |-> 0]

\* The validation loop reaches an entry whose pageId cannot be read.
ValidationThrows(pageOrder) == \E j \in 1 .. Len(pageOrder) : pageOrder[j] = NullEntry

\* Variant: the error leaves the handler and no response is sent.
ThrownEscapes == NoRes

\* catch (error) for a TypeError thrown before the first await.
Thrown == Status(500, "TypeError")

\* A request whose pageOrder holds a null entry: the checks of bookId and
\* pageOrder pass, the validation loop throws, the catch block answers.
ReceiveThrows(r, body) ==
    /\ req[r].pc = "idle"
    /\ RequestCheck(body.bookId, body.pageOrder) = "ok"
    /\ ValidationThrows(body.pageOrder.v)
    /\ req' = [req EXCEPT ![r] =
                 [Idle EXCEPT !.pc = "done", !.body = body, !.before = pages, !.res = Thrown]]
    /\ UNCHANGED <<pages, get, create, put, outside>>

\* A request without a parsed body: destructuring req.body throws.
ReceiveNoBody(r) ==
    /\ req[r].pc = "idle"
    /\ req' = [req EXCEPT ![r] = [Idle EXCEPT !.pc = "done", !.before = pages, !.res = Thrown]]
    /\ UNCHANGED <<pages, get, create, put, outside>>

\* ------------------------------------------------------------- list query
\* A string of 12 characters, which is no 24-character hexadecimal string.
TwelveChars == "twelve-chars"

\* The :bookId path parameter.
ListParams == {Book1, Book2, PageX, BadId, TwelveChars}

\* mongoose.Types.ObjectId.isValid on a string: a 24-character hexadecimal
\* string is valid; a 12-character string is valid with the older bson
\* releases and invalid with the newer ones (lenient says which is installed).
ObjectIdIsValid(s, lenient) == IsHex24(s) \/ (lenient /\ s = TwelveChars)

ListIdle == [pc |-> "idle", bookId |-> "", res |-> NoRes]

\* Variant: an invalid id is answered with an error.
ListRejectError == Status(400, "Invalid bookId format")

\* return res.json([]) for an invalid id.
ListReject == Json(<< >>)

\* The list query arrives; the handler runs up to its await of Page.find.
ListReceive(bookId, lenient) ==
    /\ get.pc = "idle"
    /\ get' = IF ~ObjectIdIsValid(bookId, lenient)
              THEN [pc |-> "done", bookId |-> bookId, res |-> ListReject]
              ELSE [pc |-> "find", bookId |-> bookId, res |-> NoRes]
    /\ UNCHANGED <<pages, req, create, put, outside>>

\* Page.find({ bookId }).sort({ pageNumber: 1 }) resolves and is sent.
ListFind ==
    /\ get.pc = "find"
    /\ get' = [get EXCEPT !.pc = "done", !.res = Json(ListQuery(pages, get.bookId))]
    /\ UNCHANGED <<pages, req, create, put, outside>>

ListReturn ==
    /\ get.pc = "done"
    /\ get' = ListIdle
    /\ UNCHANGED <<pages, req, create, put, outside>>

\* -------------------------------------------------------------- create page
\* Pages created while the model runs.
MaxCreated == 2

\* The _id values the store hands out to new pages, in this order.
NewIdList == <<"pE", "pF", "pG">>

\* req.body of a create request: the book, the page number (in use, free, or
\* negative) and the content fields.
CreateBodies ==
    {[bookId |-> b, pageNumber |-> n, content |-> "new text"] :
        b \in {Book1, Book2}, n \in {-1, 1, 3}}

CreateIdle ==
    [pc |-> "idle", body |-> [bookId |-> "", pageNumber |-> 0, content |-> ""],
     res |-> NoRes]

\* Variant: the new page is put after the last page of its book.
NewPageAppended(id, body, store) ==
    [id |-> id, bookId |-> body.bookId,
     pageNumber |-> Cardinality({p \in store : p.bookId = body.bookId}) + 1,
     content |-> body.content]

\* new Page({ bookId: req.body.bookId, pageNumber: req.body.pageNumber, ... })
NewPage(id, body, store) ==
    [id |-> id, bookId |-> body.bookId, pageNumber |-> body.pageNumber,
     content |-> body.content]

\* page.save() of a new document: refused by the unique index when a page of
\* the book holds the number, else the document is inserted.
Save(store, page) ==
    IF DuplicateKey(store, page, page.pageNumber)
    THEN [outcome |-> "E11000", store |-> store]
    ELSE [outcome |-> "saved", store |-> store \cup {page}]

\* res.status(201).json(newPage)
Created(page) == [status |-> 201, body |-> <<page>>, message |-> "", counts |-> << >>]

\* The next _id the store hands out, "" when the model has used them all.
NextId(store) ==
    LET free == {k \in 1 .. MaxCreated : \A p \in store : p.id # NewIdList[k]}
    IN  IF free = {} THEN "" ELSE NewIdList[CHOOSE k \in free : \A j \in free : k <= j]

\* The whole create handler: the page is built, saved, and answered 201, or
\* 400 when save throws.
Create(body) ==
    /\ create.pc = "idle"
    /\ NextId(pages) # ""
    /\ LET page == NewPage(NextId(pages), body, pages)
           w == Save(pages, page)
       IN  /\ pages' = w.store
           /\ create' = [pc |-> "done", body |-> body,
                         res |-> IF w.outcome = "saved" THEN Created(page)
                                 ELSE Status(400, "E11000 duplicate key error")]
    /\ UNCHANGED <<req, get, put, outside>>

CreateReturn ==
    /\ create.pc = "done"
    /\ create' = CreateIdle
    /\ UNCHANGED <<pages, req, get, put, outside>>

\* ------------------------------------------------------------ text values
\* A string is the sequence of its characters; Undefined stands for a field
\* or parameter that is absent.
Undefined == <<"undefined">>

\* The truthiness of a string or of an absent value.
Given(s) == s # Undefined /\ s # << >>

UpperChar(c) == CASE c = "a" -> "A" [] c = "b" -> "B" [] OTHER -> c
LowerChar(c) == CASE c = "A" -> "a" [] c = "B" -> "b" [] OTHER -> c

\* String.prototype.toUpperCase, toLowerCase
ToUpperCase(s) == [i \in 1 .. Len(s) |-> UpperChar(s[i])]
ToLowerCase(s) == [i \in 1 .. Len(s) |-> LowerChar(s[i])]

RECURSIVE TrimStart(_)
TrimStart(s) == IF s # << >> /\ Head(s) = " " THEN TrimStart(Tail(s)) ELSE s

RECURSIVE TrimEnd(_)
TrimEnd(s) ==
    IF s # << >> /\ s[Len(s)] = " " THEN TrimEnd(SubSeq(s, 1, Len(s) - 1)) ELSE s

\* String.prototype.trim
Trim(s) == TrimEnd(TrimStart(s))

\* ------------------------------------------------------------------ users
UserIds == {"u1", "u2"}

\* referralStats when the document has none.
NoStats == [present |-> FALSE, totalReferrals |-> 0, coinsEarned |-> 0]
Stats(n, c) == [present |-> TRUE, totalReferrals |-> n, coinsEarned |-> c]

\* A User document: the fields the referral routes read and write.
User(id, email, code, token) ==
    [id |-> id, email |-> email, referralCode |-> code, referralStats |-> NoStats,
     pushToken |-> token]

\* u1 holds the code "A" and a push token; u2 holds neither.
InitialUsers ==
    [u \in UserIds |->
        IF u = "u1" THEN User("u1", <<"a", "@">>, <<"A">>, <<"t">>)
        ELSE User("u2", <<"b", "@">>, Undefined, Undefined)]

ReferralClients == {1, 2}

\* A referral request: its route, its position in the handler, its body or
\* parameter, the document the handler holds in memory, whether the push
\* notification was sent, the response, and who sent the request.
ReferralIdle ==
    [route |-> "", pc |-> "idle", by |-> "", userId |-> "", email |-> Undefined,
     code |-> Undefined, user |-> "", doc |-> User("", Undefined, Undefined, Undefined),
     sent |-> "none",
     res |-> [status |-> 0, error |-> "", valid |-> FALSE, ownerNotified |-> FALSE]]

\* --------------------------------------------------------- referral routes
\* Redeem requests answered with success while the model runs.
MaxRedeems == 2

\* Codes a request carries: letters in either case, with and without a
\* leading space, the empty string, and no code.
Codes == {<<"a">>, <<"A">>, <<" ", "a">>, <<"b">>, << >>, Undefined}

\* The response of a referral route.
Answer(status, error) ==
    [status |-> status, error |-> error, valid |-> FALSE, ownerNotified |-> FALSE]

\* The user a request names: by id when userId is given and found, else by
\* the lower-cased email; "" when there is none.
FindUser(store, userId, email) ==
    IF userId \in UserIds THEN userId
    ELSE IF Given(email) /\ \E u \in UserIds : store[u].email = ToLowerCase(email)
    THEN CHOOSE u \in UserIds : store[u].email = ToLowerCase(email)
    ELSE ""

\* POST /sync arrives: the code is required; the handler then awaits the
\* lookup of the user.
SyncReceive(c, by, userId, email, code) ==
    /\ referral[c].pc = "idle"
    /\ LET q == [ReferralIdle EXCEPT !.route = "sync", !.by = by, !.userId = userId,
                                     !.email = email, !.code = code]
       IN  referral' = [referral EXCEPT ![c] =
               IF ~Given(code)
               THEN [q EXCEPT !.pc = "done", !.res = Answer(400, "Referral code is required")]
               ELSE [q EXCEPT !.pc = "finduser"]]
    /\ UNCHANGED <<pages, req, get, create, put, users, ledger, activity>>

\* User.findById / User.findOne({ email }) settle.
SyncFindUser(c) ==
    /\ referral[c].pc = "finduser"
    /\ LET q == referral[c]
           u == FindUser(users, q.userId, q.email)
       IN  referral' = [referral EXCEPT ![c] =
               IF u = ""
               THEN [q EXCEPT !.pc = "done", !.res = Answer(404, "User not found")]
               ELSE [q EXCEPT !.pc = "check", !.user = u, !.doc = users[u]]]
    /\ UNCHANGED <<pages, req, get, create, put, users, ledger, activity>>

\* referralCode.toUpperCase(): the key the sync route looks up and stores.
SyncNormalise(code) == ToUpperCase(code)

\* User.findOne({ referralCode, _id: { $ne: user._id } }) settles: 409 when
\* another user holds the code, else the code is set on the document in memory.
SyncCheck(c) ==
    /\ referral[c].pc = "check"
    /\ LET q == referral[c]
           key == SyncNormalise(q.code)
           existingCode == \E u \in UserIds : u # q.user /\ users[u].referralCode = key
       IN  referral' = [referral EXCEPT ![c] =
               IF existingCode
               THEN [q EXCEPT !.pc = "done", !.res = Answer(409, "Referral code already in use")]
               ELSE [q EXCEPT !.pc = "save", !.doc = [q.doc EXCEPT !.referralCode = key]]]
    /\ UNCHANGED <<pages, req, get, create, put, users, ledger, activity>>

\* user.save() settles: the referralCode of the document is written.
SyncSave(c) ==
    /\ referral[c].pc = "save"
    /\ referral[c].route = "sync"
    /\ LET q == referral[c]
       IN  /\ users' = [users EXCEPT ![q.user].referralCode = q.doc.referralCode]
           /\ referral' = [referral EXCEPT ![c] = [q EXCEPT !.pc = "done", !.res = Answer(200, "")]]
    /\ UNCHANGED <<pages, req, get, create, put, ledger, activity>>

\* Variant: the code is upper-cased and not trimmed.
LookupNormaliseNoTrim(code) == ToUpperCase(code)

\* code.toUpperCase().trim(): the key the redeem and validate routes look up.
LookupNormalise(code) == Trim(ToUpperCase(code))

\* Redeem requests answered with success so far.
Redeemed == ledger["u1"] + ledger["u2"]

\* POST /redeem arrives: the code is required; the handler then awaits the
\* lookup of the code owner.
RedeemReceive(c, by, redeemerUserId, redeemerEmail, code) ==
    /\ referral[c].pc = "idle"
    /\ Redeemed + Cardinality({d \in ReferralClients : referral[d].route = "redeem"}) < MaxRedeems
    /\ LET q == [ReferralIdle EXCEPT !.route = "redeem", !.by = by, !.userId = redeemerUserId,
                                     !.email = redeemerEmail, !.code = code]
       IN  referral' = [referral EXCEPT ![c] =
               IF ~Given(code)
               THEN [q EXCEPT !.pc = "done", !.res = Answer(400, "Referral code is required")]
               ELSE [q EXCEPT !.pc = "findowner"]]
    /\ UNCHANGED <<pages, req, get, create, put, users, ledger, activity>>

\* The two own-code checks: the owner's _id against redeemerUserId, the
\* owner's email against redeemerEmail, each only when the request carries it.
OwnCode(owner, redeemerUserId, redeemerEmail) ==
    \/ redeemerUserId # "" /\ owner.id = redeemerUserId
    \/ Given(redeemerEmail) /\ ToLowerCase(owner.email) = ToLowerCase(redeemerEmail)

\* referralStats || { 0, 0 }, then totalReferrals += 1 and coinsEarned += 500.
Increment(stats) == Stats(stats.totalReferrals + 1, stats.coinsEarned + 500)

\* User.findOne({ referralCode }) settles: 404 without an owner, 400 for the
\* owner's own code, else the stats are incremented on the document in memory.
RedeemFindOwner(c) ==
    /\ referral[c].pc = "findowner"
    /\ referral[c].route = "redeem"
    /\ LET q == referral[c]
           owners == {u \in UserIds : users[u].referralCode = LookupNormalise(q.code)}
       IN  IF owners = {}
           THEN referral' = [referral EXCEPT ![c] =
                    [q EXCEPT !.pc = "done", !.res = Answer(404, "Invalid referral code")]]
           ELSE \E o \in owners :
                    referral' = [referral EXCEPT ![c] =
                        IF OwnCode(users[o], q.userId, q.email)
                        THEN [q EXCEPT !.pc = "done", !.user = o,
                                       !.res = Answer(400, "Cannot use own code")]
                        ELSE [q EXCEPT !.pc = "save", !.user = o,
                                 !.doc = [users[o] EXCEPT
                                            !.referralStats = Increment(users[o].referralStats)]]]
    /\ UNCHANGED <<pages, req, get, create, put, users, ledger, activity>>

\* ownerNotified: !!codeOwner.pushToken
OwnerNotified(owner, sent) == Given(owner.pushToken)

\* The success response of the redeem route.
RedeemSuccess(owner, sent) ==
    [status |-> 200, error |-> "", valid |-> FALSE, ownerNotified |-> OwnerNotified(owner, sent)]

\* codeOwner.save() settles: the referralStats of the document are written;
\* without a push token the success response follows.
RedeemSave(c) ==
    /\ referral[c].pc = "save"
    /\ referral[c].route = "redeem"
    /\ LET q == referral[c]
       IN  /\ users' = [users EXCEPT ![q.user].referralStats = q.doc.referralStats]
           /\ IF Given(q.doc.pushToken)
              THEN /\ referral' = [referral EXCEPT ![c] = [q EXCEPT !.pc = "notify"]]
                   /\ ledger' = ledger
              ELSE /\ referral' = [referral EXCEPT ![c] =
                          [q EXCEPT !.pc = "done", !.res = RedeemSuccess(q.doc, FALSE)]]
                   /\ ledger' = [ledger EXCEPT ![q.user] = @ + 1]
    /\ UNCHANGED <<pages, req, get, create, put, activity>>

\* sendPushNotification: false when OneSignal is not configured, false when
\* the fetch or the reading of its reply throws, else true.
SendPushNotification(configured, fetched) ==
    IF ~configured THEN FALSE ELSE IF ~fetched THEN FALSE ELSE TRUE

\* await sendPushNotification(...) settles and the success response follows.
RedeemNotify(c, configured, fetched) ==
    /\ referral[c].pc = "notify"
    /\ LET q == referral[c]
           sent == SendPushNotification(configured, fetched)
       IN  /\ referral' = [referral EXCEPT ![c] =
                  [q EXCEPT !.pc = "done", !.sent = IF sent THEN "sent" ELSE "notsent",
                            !.res = RedeemSuccess(q.doc, sent)]]
           /\ ledger' = [ledger EXCEPT ![q.user] = @ + 1]
    /\ UNCHANGED <<pages, req, get, create, put, users, activity>>

\* GET /validate/:code arrives; the handler awaits the lookup of the owner.
ValidateReceive(c, code) ==
    /\ referral[c].pc = "idle"
    /\ referral' = [referral EXCEPT ![c] =
           [ReferralIdle EXCEPT !.route = "validate", !.pc = "findowner", !.code = code]]
    /\ UNCHANGED <<pages, req, get, create, put, users, ledger, activity>>

\* User.findOne({ referralCode: code }) settles: valid tells whether a user
\* holds the code.
ValidateFind(c) ==
    /\ referral[c].pc = "findowner"
    /\ referral[c].route = "validate"
    /\ LET q == referral[c]
           found == \E u \in UserIds : users[u].referralCode = LookupNormalise(q.code)
       IN  referral' = [referral EXCEPT ![c] =
               [q EXCEPT !.pc = "done",
                         !.res = [status |-> 200, error |-> "", valid |-> found,
                                  ownerNotified |-> FALSE]]]
    /\ UNCHANGED <<pages, req, get, create, put, users, ledger, activity>>

\* The response has been sent; the handler has returned.
ReferralReturn(c) ==
    /\ referral[c].pc = "done"
    /\ referral' = [referral EXCEPT ![c] = ReferralIdle]
    /\ UNCHANGED <<pages, req, get, create, put, users, ledger, activity>>

\* ------------------------------------------------------------- AI service
\* Characters of a reply, as far as the handler tells them apart: the two
\* braces, a "key": value member of an object, and any other text.
MaxReplyLen == 3

ReplyChars == {"{", "}", "m", "w"}

\* What the awaited openai.chat.completions.create produces: it throws, or
\* it resolves with a completion without choices, with an empty choices
\* array, with a message without content, with a content that is no string,
\* or with a text.
Reply(kind, text) == [kind |-> kind, text |-> text]

Replies ==
    {Reply(k, << >>) : k \in {"throws", "nochoices", "emptychoices", "nocontent", "notstring"}}
    \cup {Reply("text", t) : t \in SeqsUpTo(ReplyChars, MaxReplyLen)}

ActivityTypes == {"quiz", "reflection", "other"}

NoValue == [kind |-> "", key |-> "", members |-> 0]

ActivityIdle ==
    [pc |-> "idle", activityType |-> "", configured |-> FALSE, reply |-> Reply("", << >>),
     settled |-> "", value |-> NoValue]

\* generatePlaceholderActivity: questions for a quiz, reflections otherwise.
GeneratePlaceholderActivity(activityType) ==
    [kind |-> "placeholder",
     key |-> IF activityType = "quiz" THEN "questions" ELSE "reflections",
     members |-> 2]

\* responseText.match(/\{[\s\S]*\}/): from the first opening brace that has
\* a closing brace after it to the last closing brace; << >> without a match.
JsonMatch(text) ==
    LET open == {i \in 1 .. Len(text) : text[i] = "{"}
        close == {i \in 1 .. Len(text) : text[i] = "}"}
    IN  IF open = {} \/ close = {} THEN << >>
        ELSE LET first == CHOOSE i \in open : \A k \in open : i <= k
                 last == CHOOSE i \in close : \A k \in close : k <= i
             IN  IF first < last THEN SubSeq(text, first, last) ELSE << >>

\* JSON.parse succeeds on the matched text: members between one pair of braces.
JsonParses(t) ==
    /\ Len(t) >= 2
    /\ t[1] = "{"
    /\ t[Len(t)] = "}"
    /\ \A i \in 2 .. Len(t) - 1 : t[i] = "m"

Resolved(value) == [settled |-> "resolved", value |-> value]
Rejected == [settled |-> "rejected", value |-> NoValue]

\* Variant: the error of the call is thrown on.
OnCallErrorRethrown(activityType) == Rejected

\* catch (error) around the call: the placeholder is returned.
OnCallError(activityType) == Resolved(GeneratePlaceholderActivity(activityType))

\* The function after its await, by what the call produced.
AfterCompletion(activityType, reply) ==
    IF reply.kind \in {"throws", "nochoices"}
    THEN OnCallError(activityType)
    ELSE LET responseText == IF reply.kind = "text" THEN reply.text ELSE << >>
             jsonMatch == JsonMatch(responseText)
         IN  IF reply.kind # "notstring" /\ jsonMatch # << >> /\ JsonParses(jsonMatch)
             THEN Resolved([kind |-> "parsed", key |-> "", members |-> Len(jsonMatch) - 2])
             ELSE Resolved(GeneratePlaceholderActivity(activityType))

\* generateActivityFromDevotional is called: without a client it returns the
\* placeholder, else it awaits the completion.
ActivityCall(activityType, configured) ==
    /\ activity.pc = "idle"
    /\ LET q == [ActivityIdle EXCEPT !.activityType = activityType, !.configured = configured]
           r == Resolved(GeneratePlaceholderActivity(activityType))
       IN  activity' = IF ~configured
                       THEN [q EXCEPT !.pc = "settled", !.settled = r.settled, !.value = r.value]
                       ELSE [q EXCEPT !.pc = "awaiting"]
    /\ UNCHANGED <<pages, req, get, create, put, users, referral, ledger>>

\* The awaited completion settles and the function returns or throws.
ActivityReply(reply) ==
    /\ activity.pc = "awaiting"
    /\ LET r == AfterCompletion(activity.activityType, reply)
       IN  activity' = [activity EXCEPT !.pc = "settled", !.reply = reply,
                                        !.settled = r.settled, !.value = r.value]
    /\ UNCHANGED <<pages, req, get, create, put, users, referral, ledger>>

\* The caller has taken the result.
ActivityReturn ==
    /\ activity.pc = "settled"
    /\ activity' = ActivityIdle
    /\ UNCHANGED <<pages, req, get, create, put, users, referral, ledger>>

\* -------------------------------------------------------------- update page
PageFields == {"bookId", "pageNumber", "content"}

\* req.body of an update: the fields it carries (set) and their values.
UpdateBody(set, b, n, c) == [set |-> set, bookId |-> b, pageNumber |-> n, content |-> c]

UpdateBodies ==
    {UpdateBody(set, IF "bookId" \in set THEN Book2 ELSE "",
                IF "pageNumber" \in set THEN n ELSE 0,
                IF "content" \in set THEN "edited" ELSE "") :
        set \in SUBSET PageFields, n \in {2, 3}}

\* The :id path parameter.
UpdateIds == {PageA, PageB, PageX, BadId}

UpdateIdle ==
    [pc |-> "idle", id |-> "", body |-> UpdateBody({}, "", 0, ""),
     page |-> Doc("", "", 0), res |-> NoRes]

\* Object.assign(page, req.body): every field of the body is copied.
Assign(page, body) ==
    [page EXCEPT !.bookId = IF "bookId" \in body.set THEN body.bookId ELSE @,
                 !.pageNumber = IF "pageNumber" \in body.set THEN body.pageNumber ELSE @,
                 !.content = IF "content" \in body.set THEN body.content ELSE @]

\* The update arrives; the handler runs up to its await of Page.findById.
UpdateReceive(id, body) ==
    /\ put.pc = "idle"
    /\ put' = [UpdateIdle EXCEPT !.pc = "find", !.id = id, !.body = body]
    /\ UNCHANGED <<pages, req, get, create, outside>>

\* Page.findById settles: a cast error (400), no page (404), or the page,
\* to which the body is assigned before the await of save.
UpdateFind ==
    /\ put.pc = "find"
    /\ LET found == {p \in pages : p.id = put.id}
       IN  put' = IF ~IsHex24(put.id)
                  THEN [put EXCEPT !.pc = "done", !.res = Status(400, "Cast to ObjectId failed")]
                  ELSE IF found = {}
                  THEN [put EXCEPT !.pc = "done", !.res = Status(404, "Page not found")]
                  ELSE [put EXCEPT !.pc = "save",
                                   !.page = Assign(CHOOSE p \in found : TRUE, put.body)]
    /\ UNCHANGED <<pages, req, get, create, outside>>

\* page.save(): the document is replaced by the assigned page, unless the
\* unique index refuses its (bookId, pageNumber), which the catch answers 400.
UpdateSave ==
    /\ put.pc = "save"
    /\ IF DuplicateKey(pages, put.page, put.page.pageNumber)
       THEN /\ pages' = pages
            /\ put' = [put EXCEPT !.pc = "done",
                                  !.res = Status(400, "E11000 duplicate key error")]
       ELSE /\ pages' = {p \in pages : p.id # put.id} \cup {put.page}
            /\ put' = [put EXCEPT !.pc = "done", !.res = Json(<<put.page>>)]
    /\ UNCHANGED <<req, get, create, outside>>

UpdateReturn ==
    /\ put.pc = "done"
    /\ put' = UpdateIdle
    /\ UNCHANGED <<pages, req, get, create, outside>>

\* ---------------------------------------------------------- specifications
Init ==
    /\ pages = {Doc(PageA, Book1, 1), Doc(PageB, Book1, 2), Doc(PageD, Book2, 1)}
    /\ req = [r \in Clients |-> Idle]
    /\ get = ListIdle
    /\ create = CreateIdle
    /\ put = UpdateIdle
    /\ users = InitialUsers
    /\ referral = [c \in ReferralClients |-> ReferralIdle]
    /\ ledger = [u \in UserIds |-> 0]
    /\ activity = ActivityIdle

\* Reorder requests, one at a time, and nothing else.
Next ==
    \E r \in Clients :
        \/ \E body \in Bodies : Receive(r, body)
        \/ Phase1(r)
        \/ Phase2(r)
        \/ ReRead(r)
        \/ Return(r)

Spec == Init /\ [][Next]_vars

\* Reorder requests of at most one entry, list queries and creates, one
\* handler at a time.
ShortBodies == {[bookId |-> Str(Book1), pageOrder |-> Arr(s)] : s \in SeqsUpTo(Items, 1)}

Quiet == req[1].pc = "idle" /\ get.pc = "idle" /\ create.pc = "idle"

NextPages ==
    \/ Quiet /\ \E body \in ShortBodies : Receive(1, body)
    \/ Phase1(1)
    \/ Phase2(1)
    \/ ReRead(1)
    \/ Return(1)
    \/ Quiet /\ \E bookId \in ListParams, lenient \in BOOLEAN : ListReceive(bookId, lenient)
    \/ ListFind
    \/ ListReturn
    \/ Quiet /\ \E body \in CreateBodies : Create(body)
    \/ CreateReturn

SpecPages == Init /\ [][NextPages]_vars

\* Reorder requests with positive targets against a store whose calls can
\* fail: a page is negative at rest only after a request that ended in error.
FailureItems ==
    {Item(Str(id), n) : id \in {PageA, PageB}, n \in {1, 2, 3}} \cup {Item(Str(PageX), 1)}

FailureBodies ==
    {[bookId |-> Str(Book1), pageOrder |-> Arr(s)] : s \in SeqsUpTo(FailureItems, MaxOrderLen)}

NextFailure ==
    \E r \in Clients :
        \/ \E body \in FailureBodies : Receive(r, body)
        \/ Phase1(r)
        \/ Phase1Fails(r)
        \/ Phase2(r)
        \/ Phase2Fails(r)
        \/ ReRead(r)
        \/ ReReadFails(r)
        \/ Return(r)

SpecFailure == Init /\ [][NextFailure]_vars

\* Two reorder requests for the same book in flight at once: the awaited
\* writes of one run between the awaited writes of the other.
ConcurrentClients == {1, 2}

\* The pageOrder arrays the two clients send: a swap, single moves, and a
\* move past the end together with a move into the freed number.
ConcurrentOrders ==
    {<<Item(Str(PageA), 2), Item(Str(PageB), 1)>>,
     <<Item(Str(PageB), 3), Item(Str(PageA), 2)>>,
     <<Item(Str(PageA), 3)>>,
     <<Item(Str(PageB), 1)>>}

ConcurrentBodies ==
    {[bookId |-> Str(Book1), pageOrder |-> Arr(s)] : s \in ConcurrentOrders}

InitConcurrent ==
    /\ pages = {Doc(PageA, Book1, 1), Doc(PageB, Book1, 2), Doc(PageD, Book2, 1)}
    /\ req = [r \in ConcurrentClients |-> Idle]
    /\ get = ListIdle
    /\ create = CreateIdle
    /\ put = UpdateIdle
    /\ users = InitialUsers
    /\ referral = [c \in ReferralClients |-> ReferralIdle]
    /\ ledger = [u \in UserIds |-> 0]
    /\ activity = ActivityIdle

NextConcurrent ==
    \E r \in ConcurrentClients :
        \/ \E body \in ConcurrentBodies : Receive(r, body)
        \/ Phase1(r)
        \/ Phase2(r)
        \/ ReRead(r)
        \/ Return(r)

\* The event loop runs every continuation that is ready.
SpecConcurrent == InitConcurrent /\ [][NextConcurrent]_vars /\ WF_vars(NextConcurrent)

\* Requests of every kind the handler answers (accepted, refused by the
\* checks, throwing in validation) against a store whose calls can fail; a
\* request that waits on a storage call is resumed when the call settles.
FairItems == {Item(Str(PageA), 2), Item(Str(PageB), 1), Item(Str(PageX), 1)}

FairBodies ==
    {[bookId |-> Str(Book1), pageOrder |-> Arr(s)] : s \in SeqsUpTo(FairItems, MaxOrderLen)}
    \cup {[bookId |-> Str(BadId), pageOrder |-> Arr(<< >>)],
          [bookId |-> Absent, pageOrder |-> Arr(<< >>)],
          [bookId |-> Str(Book1), pageOrder |-> NoOrder],
          [bookId |-> Str(Book1), pageOrder |-> NotArray]}

NullEntryBodies ==
    {[bookId |-> Str(Book1), pageOrder |-> Arr(s)] :
        s \in {<<NullEntry>>, <<Item(Str(PageA), 2), NullEntry>>}}

\* The storage call the request waits on settles and the handler resumes.
Continue(r) ==
    \/ Phase1(r)
    \/ Phase1Fails(r)
    \/ Phase2(r)
    \/ Phase2Fails(r)
    \/ ReRead(r)
    \/ ReReadFails(r)

NextFair ==
    \E r \in Clients :
        \/ \E body \in FairBodies : Receive(r, body)
        \/ \E body \in NullEntryBodies : ReceiveThrows(r, body)
        \/ ReceiveNoBody(r)
        \/ Continue(r)
        \/ Return(r)

SpecFair == Init /\ [][NextFair]_vars /\ \A r \in Clients : WF_vars(Continue(r))

\* Reorder requests, one at a time, whose targets include -1, the first
\* placeholder: the handler takes any number as newPageNumber.
RepeatItems == {Item(Str(id), n) : id \in {PageA, PageB}, n \in {-1, 1, 2, 3}}

RepeatBodies ==
    {[bookId |-> Str(Book1), pageOrder |-> Arr(s)] : s \in SeqsUpTo(RepeatItems, MaxOrderLen)}

NextRepeat ==
    \E r \in Clients :
        \/ \E body \in RepeatBodies : Receive(r, body)
        \/ Phase1(r)
        \/ Phase2(r)
        \/ ReRead(r)
        \/ Return(r)

SpecRepeat == Init /\ [][NextRepeat]_vars

\* Page updates, one at a time.
NextUpdate ==
    \/ \E id \in UpdateIds, body \in UpdateBodies : UpdateReceive(id, body)
    \/ UpdateFind
    \/ UpdateSave
    \/ UpdateReturn

SpecUpdate == Init /\ [][NextUpdate]_vars

\* What a request can carry about its sender: its id, its email in another
\* case, both, or neither.
Carried(by) ==
    {<<id, e>> : id \in {"", by},
                 e \in {Undefined, ToUpperCase(InitialUsers[by].email)}}

\* Referral requests, one at a time.
NextReferral ==
    \/ \E by \in UserIds, code \in Codes : \E who \in Carried(by) :
            SyncReceive(1, by, who[1], who[2], code)
    \/ SyncFindUser(1)
    \/ SyncCheck(1)
    \/ SyncSave(1)
    \/ \E by \in UserIds, code \in Codes : \E who \in Carried(by) :
            RedeemReceive(1, by, who[1], who[2], code)
    \/ RedeemFindOwner(1)
    \/ RedeemSave(1)
    \/ \E configured, fetched \in BOOLEAN : RedeemNotify(1, configured, fetched)
    \/ \E code \in Codes \ {<< >>, Undefined} : ValidateReceive(1, code)
    \/ ValidateFind(1)
    \/ ReferralReturn(1)

SpecReferral == Init /\ [][NextReferral]_vars

\* Two clients at once: u1 and u2 sync the same code in either case, and u2
\* redeems the code of u1.
NextReferralRace ==
    \E c \in ReferralClients :
        \/ \E by \in UserIds, code \in {<<"b">>, <<"B">>} :
                SyncReceive(c, by, by, Undefined, code)
        \/ SyncFindUser(c)
        \/ SyncCheck(c)
        \/ SyncSave(c)
        \/ RedeemReceive(c, "u2", "u2", Undefined, <<"a">>)
        \/ RedeemFindOwner(c)
        \/ RedeemSave(c)
        \/ \E configured, fetched \in BOOLEAN : RedeemNotify(c, configured, fetched)
        \/ ReferralReturn(c)

SpecReferralRace == Init /\ [][NextReferralRace]_vars

\* Calls of generateActivityFromDevotional, one at a time.
NextActivity ==
    \/ \E activityType \in ActivityTypes, configured \in BOOLEAN :
            ActivityCall(activityType, configured)
    \/ \E reply \in Replies : ActivityReply(reply)
    \/ ActivityReturn

SpecActivity == Init /\ [][NextActivity]_vars

\* ================================================================= claims
\* The request in flight and what it was asked.
rq == req[1]
Finished == rq.pc = "done"
Accepted == rq.bookIdStr # ""
Entries == rq.validPageOrders
EntryIdx == 1 .. Len(Entries)
Target(j) == Entries[j].newPageNumber

\* The pages of the request's book when it arrived, and now.
BookBefore == {p \in rq.before : p.bookId = rq.bookIdStr}
BookNow == {p \in pages : p.bookId = rq.bookIdStr}

\* The entries whose pageId is a page of the book.
Matched == {j \in EntryIdx : \E p \in BookBefore : p.id = Entries[j].pageId}
MatchedIds == {Entries[j].pageId : j \in Matched}

NoMalformedEntry == Len(Entries) = Len(rq.body.pageOrder.v)

\* The matched entries name pairwise distinct pages and pairwise distinct
\* targets.
MatchedDistinct ==
    \A j, k \in Matched :
        j # k => /\ Entries[j].pageId # Entries[k].pageId
                 /\ Target(j) # Target(k)

\* The numbers Phase 1 hands out for this request.
Placeholders == {-j : j \in EntryIdx}

\* No target is one of the request's placeholders and none is held by a page
\* of the book that the request does not list.
TargetsFree ==
    \A j \in Matched :
        /\ Target(j) \notin Placeholders
        /\ \A p \in BookBefore : p.pageNumber = Target(j) => p.id \in MatchedIds

\* No page of the book held one of the request's placeholders when the
\* request arrived.
CleanStart == \A p \in BookBefore : p.pageNumber \notin Placeholders

AppliedAsRequested(j) ==
    \E p \in BookNow : p.id = Entries[j].pageId /\ p.pageNumber = Target(j)

Ascending(list) ==
    \A j, k \in 1 .. Len(list) : j < k => list[j].pageNumber < list[k].pageNumber

\* A list query now returns exactly the pages of the book, smallest first.
ListedInOrder ==
    LET list == ListQuery(pages, rq.bookIdStr)
    IN  /\ Ascending(list)
        /\ {list[j] : j \in 1 .. Len(list)} = BookNow
        /\ Len(list) = Cardinality(BookNow)

\* Every entry of the request names a page of the book, the pages are
\* distinct and so are the targets.
ListsDistinctPages ==
    /\ Accepted
    /\ Len(Entries) >= 1
    /\ NoMalformedEntry
    /\ Matched = EntryIdx
    /\ MatchedDistinct

ReorderedAsRequested ==
    /\ rq.res.status = 200
    /\ \A j \in EntryIdx : AppliedAsRequested(j)
    /\ ListedInOrder

\* C1 as stated: every finished request that lists N distinct pages of the
\* book with N distinct targets has stored each target and a list query
\* returns the pages in that order.
C1_AsStated == (Finished /\ ListsDistinctPages) => ReorderedAsRequested

\* C1, amended: a finished request that lists N distinct pages of the book
\* with N distinct targets, none of them one of the placeholders -1..-N and
\* none held by a page of the book it does not list, and that arrived when no
\* page of the book held one of -1..-N, has stored each target, answered 200,
\* and a list query returns the book's pages ascending by those numbers.
C1_ReorderApplied ==
    (Finished /\ ListsDistinctPages /\ CleanStart /\ TargetsFree)
        => ReorderedAsRequested

\* A finished exchange of the positions of two pages.
C1_Witness ==
    /\ Finished /\ ListsDistinctPages /\ CleanStart /\ TargetsFree
    /\ Len(Entries) = 2
    /\ \A p \in BookBefore : p \notin pages

\* C2: in every state, also between the writes of a request, no two pages of
\* one book hold the same pageNumber.
C2_UniquePosition ==
    \A p, q \in pages :
        (p # q /\ p.bookId = q.bookId) => p.pageNumber # q.pageNumber

\* Between two Phase 2 writes: one page committed, one at its placeholder.
C2_Witness ==
    /\ rq.pc = "phase2"
    /\ rq.i >= 1
    /\ \E p, q \in BookNow : p.pageNumber < 0 /\ q.pageNumber > 0 /\ q \notin rq.before

\* The targets are the positions the listed pages held when the request
\* arrived, in some order.
IsPermutation ==
    /\ ListsDistinctPages
    /\ {Target(j) : j \in EntryIdx}
         = {p.pageNumber : p \in {d \in BookBefore : d.id \in MatchedIds}}

NoWriteRejected ==
    \A k \in 1 .. Len(rq.writes) : rq.writes[k].outcome # "E11000"

\* C3: a finished request whose targets permute the positions of the listed
\* pages answered 200 and had none of its writes refused by the index.
C3_PermutationSucceeds ==
    (Finished /\ IsPermutation) => (rq.res.status = 200 /\ NoWriteRejected)

\* C4: when a Phase 2 write has been issued, the Phase 1 write of every valid
\* entry has been issued before it, in list order, and has completed.
C4_PhaseOrder ==
    \A k \in 1 .. Len(rq.writes) :
        rq.writes[k].phase = 2 =>
            /\ k > Len(Entries)
            /\ \A j \in EntryIdx :
                /\ rq.writes[j].phase = 1
                /\ rq.writes[j].pageId = Entries[j].pageId
                /\ rq.writes[j].outcome # "E11000"

\* A Phase 2 write of a request with at least two valid entries.
C4_Witness ==
    /\ Len(Entries) >= 2
    /\ \E k \in 1 .. Len(rq.writes) : rq.writes[k].phase = 2

\* C5: the Phase 1 write of the i-th valid entry (from 0) stores -(i+1) and no
\* Phase 1 write is refused by the index.
C5_PlaceholdersNeverCollide ==
    \A k \in 1 .. Len(rq.writes) :
        rq.writes[k].phase = 1 =>
            /\ rq.writes[k].pageNumber = -k
            /\ rq.writes[k].outcome # "E11000"


\* The Phase 2 write at position k of the log was refused because of a page
\* that the same request lists.
RefusedByListedPage(k) ==
    /\ rq.writes[k].phase = 2
    /\ rq.writes[k].outcome = "E11000"
    /\ \E d \in BookNow :
        /\ d.pageNumber = rq.writes[k].pageNumber
        /\ d.id # rq.writes[k].pageId
        /\ d.id \in {Entries[j].pageId : j \in EntryIdx}

\* C6 as stated: no Phase 2 write collides with the number held by another
\* page listed in the same request.
C6_AsStated == \A k \in 1 .. Len(rq.writes) : ~RefusedByListedPage(k)

AllTargetsDistinct ==
    \A j, k \in EntryIdx : j # k => Target(j) # Target(k)

\* C6, amended: when the targets of the valid entries are pairwise distinct
\* and none of them is one of the placeholders -1..-N, no Phase 2 write
\* collides with the number held by another page listed in the same request.
C6_Phase2NoCollision ==
    (AllTargetsDistinct /\ \A j \in EntryIdx : Target(j) \notin Placeholders)
        => \A k \in 1 .. Len(rq.writes) : ~RefusedByListedPage(k)

\* The first of two listed pages is committed while the second is still at
\* its placeholder.
C6_Witness ==
    /\ rq.pc = "phase2"
    /\ rq.i = 1
    /\ AllTargetsDistinct
    /\ \A j \in EntryIdx : Target(j) \notin Placeholders
    /\ Matched = EntryIdx
    /\ Entries[1].pageId # Entries[2].pageId
    /\ rq.writes[Len(rq.writes)].outcome = "doc"

\* Pages outside the request's book, and the set of page ids, are as they
\* were when the request arrived.
OthersUntouched ==
    /\ {p \in pages : p.bookId # rq.bookIdStr} = {p \in rq.before : p.bookId # rq.bookIdStr}
    /\ {p.id : p \in pages} = {p.id : p \in rq.before}

HasUnmatchedEntry == Accepted /\ Matched # EntryIdx

AppliedExceptUnmatched ==
    /\ rq.res.status = 200
    /\ \A j \in Matched : AppliedAsRequested(j)
    /\ OthersUntouched

\* C7 as stated: a finished request with an entry whose pageId is no page of
\* the book has applied every other valid entry, changed nothing for the
\* unmatched entry and answered 200.
C7_AsStated == (Finished /\ HasUnmatchedEntry) => AppliedExceptUnmatched

\* C7, amended: a finished request with an entry whose well-formed pageId is
\* no page of the book, whose other valid entries name distinct pages of the
\* book with distinct targets, none of them one of the placeholders -1..-N
\* (N the number of valid entries) and none held by a page of the book that is
\* not listed, and that arrived when no page of the book held one of -1..-N,
\* has applied every other valid entry, changed nothing for the unmatched
\* entry and answered 200.
C7_UnmatchedEntrySkipped ==
    (Finished /\ HasUnmatchedEntry /\ MatchedDistinct /\ CleanStart /\ TargetsFree)
        => AppliedExceptUnmatched

\* A finished request with an unmatched entry that moved a page of the book.
C7_Witness ==
    /\ Finished /\ HasUnmatchedEntry /\ MatchedDistinct /\ CleanStart /\ TargetsFree
    /\ Matched # {}
    /\ BookNow # BookBefore

\* A string, or the _id of an object, that is not 24 hexadecimal characters.
Malformed(x) ==
    \/ x.t = "str" /\ x.v \notin HexIds
    \/ x.t = "obj" /\ x.id \notin HexIds

InvalidRequest ==
    \/ rq.body.bookId.t = "absent"
    \/ Malformed(rq.body.bookId)
    \/ rq.body.pageOrder.t \in {"absent", "notarray"}

WellFormedEntry(item) == item.pageId.t # "absent" /\ ~Malformed(item.pageId)

\* The body with the entries of malformed pageId taken out of pageOrder.
WithoutMalformed(body) ==
    [body EXCEPT !.pageOrder = Arr(SelectSeq(body.pageOrder.v, WellFormedEntry))]

AppliedEntries ==
    Cardinality({j \in EntryIdx : \E p \in BookNow : p.id = Entries[j].pageId})

\* C10 as stated: the success response tells the caller how many entries
\* were applied and how many were supplied.
C10_AsStated ==
    (Finished /\ rq.res.status = 200)
        => rq.res.counts = <<AppliedEntries, Len(rq.body.pageOrder.v)>>

\* C10, amended: the handler writes to the server log, and not to the
\* response, how many entries were supplied and how many were applied; the
\* applied count is the number of valid entries whose page exists under the
\* book, and the response carries the page list only.
C10_CountsLogged ==
    (Finished /\ rq.res.status = 200)
        => /\ rq.log = <<<<"Reordering", Len(rq.body.pageOrder.v)>>,
                         <<"Updated", AppliedEntries>>>>
           /\ rq.updatedCount = AppliedEntries
           /\ rq.res.counts = << >>

\* A partial application: fewer entries applied than supplied, not none.
C10_Witness ==
    /\ Finished
    /\ rq.res.status = 200
    /\ rq.updatedCount >= 1
    /\ rq.updatedCount < Len(rq.body.pageOrder.v)

\* C11: the success response of a finished request holds every page of the
\* book as stored after the last write, listed or not, each once, ascending
\* by pageNumber.
C11_ResponseIsWholeBook ==
    (Finished /\ rq.res.status = 200)
        => /\ {rq.res.body[j] : j \in 1 .. Len(rq.res.body)} = BookNow
           /\ Len(rq.res.body) = Cardinality(BookNow)
           /\ Ascending(rq.res.body)

\* A success response that holds a moved page and a page the request did not
\* list.
C11_Witness ==
    /\ Finished
    /\ rq.res.status = 200
    /\ BookNow # BookBefore
    /\ \E j \in 1 .. Len(rq.res.body) :
        rq.res.body[j].id \notin {Entries[k].pageId : k \in EntryIdx}

\* C14: whenever no reorder request is in progress, every stored page has a
\* pageNumber that is not negative.
C14_NoNegativeAtRest ==
    rq.pc = "idle" => \A p \in pages : p.pageNumber >= 0

\* A page without its pageNumber.
Rest(p) == [id |-> p.id, bookId |-> p.bookId, content |-> p.content]

\* C18: while a reorder request runs and when it has finished, the stored
\* pages are the pages found when it arrived, with the same bookId and
\* content each: only pageNumber may differ.
C18_OnlyPageNumberChanges ==
    rq.pc # "idle" =>
        /\ {Rest(p) : p \in pages} = {Rest(p) : p \in rq.before}
        /\ Cardinality(pages) = Cardinality(rq.before)

\* A finished request that moved a page and listed an id of no page.
C18_Witness ==
    /\ Finished
    /\ pages # rq.before
    /\ \E k \in EntryIdx : \A p \in pages : p.id # Entries[k].pageId

\* C12: a list query for a well-formed book identifier answers with exactly
\* the pages whose bookId is that book, each once, in ascending pageNumber
\* order, and no step of the list handler changes a stored page.
C12_ListReturnsBook ==
    [][/\ (get.pc = "find" /\ get'.pc = "done") =>
            LET body == get'.res.body
            IN  /\ get'.res.status = 200
                /\ {body[j] : j \in 1 .. Len(body)} = {p \in pages : p.bookId = get.bookId}
                /\ Len(body) = Cardinality({p \in pages : p.bookId = get.bookId})
                /\ Ascending(body)
       /\ (get' # get) => (pages' = pages)]_vars

\* A list of two pages whose order by pageNumber is not their order of creation.
C12_Witness ==
    /\ get.pc = "done" /\ get.bookId = Book1
    /\ Len(get.res.body) >= 2
    /\ get.res.body[1].id = PageB

\* C13: a list query whose book identifier is not a 24-character hexadecimal
\* string is answered with status 200 and an empty list, and the step that
\* answers it leaves the stored pages as they were.
C13_MalformedListsEmpty ==
    [][(get.pc # "done" /\ get'.pc = "done" /\ ~IsHex24(get'.bookId)) =>
            /\ get'.res.status = 200
            /\ get'.res.body = << >>
            /\ pages' = pages]_vars

C13_Witness == get.pc = "done" /\ get.bookId = BadId /\ get.res.status = 200

\* C20: a create stores one new page with the bookId and pageNumber of the
\* request and answers 201, unless a stored page holds that (bookId,
\* pageNumber), in which case it answers 400 and the stored pages are unchanged.
C20_CreateAsSupplied ==
    [][(create.pc = "idle" /\ create'.pc = "done") =>
            LET b == create'.body
                taken == \E p \in pages : p.bookId = b.bookId /\ p.pageNumber = b.pageNumber
            IN  IF taken
                THEN create'.res.status = 400 /\ pages' = pages
                ELSE /\ create'.res.status = 201
                     /\ \E p \in pages' \ pages :
                            /\ pages' = pages \cup {p}
                            /\ p.bookId = b.bookId
                            /\ p.pageNumber = b.pageNumber
                            /\ create'.res.body = <<p>>]_vars

\* A create is refused while a page created earlier is stored.
C20_Witness ==
    /\ create.pc = "done" /\ create.res.status = 400
    /\ \E p \in pages : p.id = NewIdList[1]

\* The writes of the request that the store applied, replayed in order.
RECURSIVE Replayed(_, _)
Replayed(store, ws) ==
    IF ws = << >> THEN store
    ELSE LET w == Head(ws)
         IN  Replayed(IF w.outcome = "doc"
                      THEN {IF p.id = w.pageId THEN [p EXCEPT !.pageNumber = w.pageNumber]
                            ELSE p : p \in store}
                      ELSE store,
                      Tail(ws))

WriteIdx == 1 .. Len(rq.writes)

\* The request ended because a write was refused or failed.
WriteFailed ==
    /\ Finished
    /\ Len(rq.writes) > 0
    /\ rq.writes[Len(rq.writes)].outcome \in {"failed", "E11000"}

\* Pages the request moved to a placeholder and never gave a final number.
Quarantined ==
    {rq.writes[k].pageId : k \in {j \in WriteIdx :
                                rq.writes[j].phase = 1 /\ rq.writes[j].outcome = "doc"}}
    \ {rq.writes[k].pageId : k \in {j \in WriteIdx :
                                rq.writes[j].phase = 2 /\ rq.writes[j].outcome = "doc"}}

\* C15: when a write of a reorder request fails, the response is a 500, the
\* stored pages are what the writes made before the failure left (nothing is
\* undone), and each page moved to a placeholder and not yet given its final
\* number still has a negative pageNumber.
C15_FailureLeavesPlaceholders ==
    WriteFailed =>
        /\ rq.res.status = 500
        /\ pages = Replayed(rq.before, rq.writes)
        /\ \A p \in pages : p.id \in Quarantined => p.pageNumber < 0

\* Phase 2 committed one page, then the store failed with another page still
\* on its placeholder.
C15_Witness ==
    /\ WriteFailed
    /\ rq.writes[Len(rq.writes)].outcome = "failed"
    /\ \E k \in WriteIdx : rq.writes[k].phase = 2 /\ rq.writes[k].outcome = "doc"
    /\ \E p \in pages : p.id \in Quarantined /\ p.pageNumber < 0
    /\ pages # rq.before

\* C16: a reorder request that finds pages of its book with a negative
\* pageNumber and completes successfully leaves no page of the book negative.
C16_NegativesReassigned ==
    (Finished /\ rq.res.status = 200 /\ \E p \in BookBefore : p.pageNumber < 0)
        => \A p \in BookNow : p.pageNumber >= 0

\* Two pages of one book hold the same pageNumber.
Duplicate ==
    \E p, q \in pages : p.id # q.id /\ p.bookId = q.bookId /\ p.pageNumber = q.pageNumber

InFlight == rq.pc \in {"phase1", "phase2", "reread"}

\* C19: every reorder request ends with one response: no response exists
\* before the handler has ended, the response is a 200, a 400 or a 500, it is
\* not replaced once sent, and a request waiting on the store always reaches
\* its response, whether the failure arises in validation, in a write or in
\* the re-read.
C19_OneResponse ==
    /\ [](rq.pc = "done" => rq.res.status \in {200, 400, 500})
    /\ [](rq.pc # "done" => rq.res = NoRes)
    /\ [][rq.pc = "done" => (rq'.pc = "idle" \/ rq' = rq)]_vars
    /\ (InFlight ~> rq.pc = "done")

\* A failure in validation answered with 500 and nothing written.
C19_Witness ==
    /\ Finished /\ rq.res.status = 500
    /\ rq.body.pageOrder.t = "array"
    /\ ValidationThrows(rq.body.pageOrder.v)
    /\ rq.writes = << >>
    /\ pages = rq.before

\* The page ids the request lists, as the handler reads them.
ListedIds ==
    {IdStr(rq.body.pageOrder.v[j].pageId) : j \in 1 .. Len(rq.body.pageOrder.v)}

\* C25: from the arrival of a reorder request for a book to its response,
\* every page the request does not list and every page of another book, listed
\* or not, is stored exactly as the request found it.
C25_OnlyListedPagesOfBookMove ==
    rq.pc # "idle" =>
        \A p \in rq.before :
            (p.id \notin ListedIds \/ p.bookId # IdStr(rq.body.bookId)) => p \in pages

\* A successful request that lists a page of another book and moved a page of
\* its own book, past a page it does not list.
C25_Witness ==
    /\ Finished /\ rq.res.status = 200
    /\ PageD \in ListedIds
    /\ \E p \in BookBefore : p.id \in ListedIds /\ p \notin pages
    /\ \E p \in BookBefore : p.id \notin ListedIds

\* C26: when a reorder request has been answered 200, the same request run
\* again on the pages it left is answered 200 and leaves every page as it is.
C26_Idempotent ==
    (Finished /\ rq.res.status = 200) =>
        /\ Handle(pages, rq.body).res.status = 200
        /\ Handle(pages, rq.body).store = pages

\* C21: the step of a page update that saves the page leaves the pageNumber
\* and the bookId of every stored page as they were.
C21_UpdateKeepsPosition ==
    [][put.pc = "save" =>
            \A p \in pages : \E q \in pages' :
                q.id = p.id /\ q.pageNumber = p.pageNumber /\ q.bookId = p.bookId]_vars

rf == referral[1]

\* C22: a redeem request sent by the owner of the code it names is answered
\* 'Cannot use own code' as soon as the owner has been looked up, whatever it
\* carries of the sender's id and email, and so never reaches the save of the
\* owner's stats.
C22_OwnCodeRefused ==
    (rf.route = "redeem" /\ rf.user # "" /\ rf.by = rf.user)
        => (rf.pc = "done" /\ rf.res.status = 400 /\ rf.res.error = "Cannot use own code")

\* C23: no step of a validate request changes a user, and its answer has
\* valid = TRUE exactly when a user holds the upper-cased, trimmed code.
C23_ValidateReadOnly ==
    [][(rf.route = "validate" \/ rf'.route = "validate") =>
            /\ users' = users
            /\ (rf.pc = "findowner" /\ rf'.pc = "done") =>
                   /\ rf'.res.status = 200
                   /\ rf'.res.valid =
                         (\E u \in UserIds : users[u].referralCode = Trim(ToUpperCase(rf.code)))]_vars

\* A code in lower case behind a space is found valid.
C23_Witness ==
    /\ rf.route = "validate" /\ rf.pc = "done"
    /\ rf.code = <<" ", "a">>
    /\ rf.res.valid

\* C27: no two users hold the same referralCode.
C27_CodesUnique ==
    \A u, v \in UserIds :
        (u # v /\ users[u].referralCode # Undefined)
            => users[u].referralCode # users[v].referralCode

\* C28: whenever no redeem request stands between its save and its response,
\* each user's totalReferrals is the number of redeem requests for that
\* user's code answered with success, and coinsEarned is 500 times that.
C28_StatsCountRedeems ==
    (\A c \in ReferralClients : referral[c].pc # "notify") =>
        \A u \in UserIds :
            /\ users[u].referralStats.totalReferrals = ledger[u]
            /\ users[u].referralStats.coinsEarned = 500 * ledger[u]

\* C29: when a user holds the code as a sync of the request's code string
\* stores it, validate finds the code valid and redeem finds its owner.
C29_SameKey ==
    (rf.pc = "done" /\ rf.route \in {"validate", "redeem"} /\ Given(rf.code)
     /\ \E u \in UserIds : users[u].referralCode = ToUpperCase(rf.code))
        => /\ rf.route = "validate" => rf.res.valid
           /\ rf.route = "redeem" => rf.res.status # 404

\* C30: a redeem answered with success says ownerNotified only when
\* sendPushNotification returned true.
C30_NotifiedMeansSent ==
    (rf.route = "redeem" /\ rf.pc = "done" /\ rf.res.status = 200 /\ rf.res.ownerNotified)
        => rf.sent = "sent"

\* The reply holds a text some part of which is a JSON object.
HoldsObject(reply) ==
    /\ reply.kind = "text"
    /\ \E i, j \in 1 .. Len(reply.text) :
           /\ i < j
           /\ reply.text[i] = "{"
           /\ reply.text[j] = "}"
           /\ \A k \in i + 1 .. j - 1 : reply.text[k] = "m"

\* C24: a call of generateActivityFromDevotional that has settled has resolved
\* with an object; without a client, and with a client whose call threw or
\* whose reply holds no JSON object, the object is the placeholder with
\* 'questions' for a quiz and 'reflections' for any other type.
C24_AlwaysResolves ==
    activity.pc = "settled" =>
        /\ activity.settled = "resolved"
        /\ activity.value.kind \in {"placeholder", "parsed"}
        /\ (~activity.configured \/ ~HoldsObject(activity.reply)) =>
               /\ activity.value.kind = "placeholder"
               /\ activity.value.key =
                     IF activity.activityType = "quiz" THEN "questions" ELSE "reflections"

\* A quiz whose reply has braces around text that is no JSON.
C24_Witness ==
    /\ activity.pc = "settled"
    /\ activity.configured
    /\ activity.activityType = "quiz"
    /\ activity.reply.kind = "text"
    /\ JsonMatch(activity.reply.text) # << >>
    /\ ~HoldsObject(activity.reply)
    /\ activity.value.key = "questions"

====
